---------------------------- MODULE Spec2Model ----------------------------
(***************************************************************************)
(* A model of fuzzyrs: the codepoint scanner (unicode.rs), the bonus model *)
(* and the two matchers (matcher.rs), the multi-term pattern (pattern.rs)  *)
(* and the scan pipeline of the command line tool (main.rs).               *)
(*                                                                         *)
(* Rust indices are 0-based and are kept 0-based in the model; a Rust      *)
(* slice or Vec v is a TLA+ sequence and v[k] is written At(v, k).         *)
(* Option<T> is a record: None, or Some(v) = [some |-> TRUE, val |-> v].   *)
(* A panic is an outcome of its own (pc = "panicked"), and so is the abort *)
(* of the process by a failed precondition of an unsafe call               *)
(* (pc = "aborted").                                                       *)
(***************************************************************************)
EXTENDS Integers, Sequences, FiniteSets, TLC

VARIABLES
    pc,          \* position of the modelled call
    term,        \* FuzzyMatcher.term / ExactMatcher.term (Vec<char>, codepoints)
    input,       \* the candidate bytes handed to match_term
    opts,        \* MatchOptions
    fm,          \* locals of FuzzyMatcher::match_term
    failure_function, \* ExactMatcher.failure_function
    em,          \* locals of ExactMatcher::match_term
    result,      \* what the modelled call returned
    query,       \* the query string handed to Pattern::new
    terms,       \* Pattern.terms
    results,     \* the results Pattern::matches has collected so far
    chunk_pos,   \* per chunk: entries of it the worker has processed
    channel,     \* lines sent and not yet received
    sender_live, \* some Sender handle is still alive
    written,     \* lines the consumer thread has written to stdout
    consumer_pc, \* position of the consumer thread: "recv", "write",
                 \* "unwinding", "exited", "panicked"
    pattern,     \* the Pattern of the scan pipeline (its query string)
    line,        \* the line the consumer thread has received and not written
    job_panicked, \* per chunk: the closure panicked on it
    non_utf8     \* the entry whose path is not UTF-8 (0: there is none)

vars == <<pc, term, input, opts, fm, failure_function, em, result, query,
          terms, results, chunk_pos, channel, sender_live, written,
          consumer_pc, pattern, line, job_panicked, non_utf8>>

matcherVars == <<term, input, opts, fm, failure_function, em>>
patternVars == <<query, terms, results>>
pipelineVars == <<chunk_pos, channel, sender_live, written, consumer_pc, pattern,
                  line, job_panicked, non_utf8>>

----------------------------------------------------------------------------
(* Bounds of the model *)

\* longest query term, in characters
MaxTermLen == 2
\* longest candidate, in bytes
MaxInputLen == 3
\* longest candidate of the family that holds the leading byte 0xED
MaxMalformedInputLen == 4
\* longest candidate of the family that holds the leading byte 0xF4
MaxNicheInputLen == 5
\* longest query term and candidate of the single-byte family of ExactMatcher
MaxAsciiTermLen == 5
MaxAsciiInputLen == 8
\* longest query string handed to Pattern::new, longest candidate of a pattern
MaxQueryLen == 4
MaxPatternInputLen == 3
\* directory entries of the scan pipeline
NumEntries == 34

----------------------------------------------------------------------------
(* Generic helpers *)

None == [some |-> FALSE]
Some(v) == [some |-> TRUE, val |-> v]

At(s, k) == s[k + 1]

SetAt(s, k, v) == [s EXCEPT ![k + 1] = v]

SubSeqFrom(s, k) == SubSeq(s, k + 1, Len(s))

SeqsUpTo(S, n) == UNION {[1..m -> S] : m \in 0..n}

Pow2(n) == 2 ^ n

----------------------------------------------------------------------------
(* unicode.rs *)

CONT_MASK == 63

\* byte & (0x7F >> width): the low 7 - width bits of the byte
utf8_first_byte(byte, width) == byte % Pow2(7 - width)

\* (ch << 6) | (byte & CONT_MASK): the shifted value has its low six bits clear
utf8_acc_cont_byte(ch, byte) == ch * 64 + (byte % (CONT_MASK + 1))

\* unwrap_or_0(bytes.get(k))
unwrap_or_0(bytes, k) == IF k < Len(bytes) THEN At(bytes, k) ELSE 0

\* a Unicode scalar value, the values a char may hold
is_scalar_value(ch) == ch < 55296 \/ (57344 <= ch /\ ch <= 1114111)

\* the process is aborted
Abort == [some |-> FALSE, abort |-> TRUE]

\* Some(unsafe { char::from_u32_unchecked(ch) }), the set of its outcomes.
\* Handed a value that is no scalar value the call is undefined: a build
\* that checks the precondition aborts the process, a build that does not
\* returns the value as it is, and the value 0x110000, one past the last
\* scalar value, is the one Option<char> keeps for None: what is returned
\* for it may be read as None.
from_u32_unchecked(ch) ==
    IF is_scalar_value(ch) THEN {Some(ch)}
    ELSE {Some(ch), Abort} \cup (IF ch = 1114112 THEN {None} ELSE {})

\* next_code_point, the set of its outcomes: None, Some(c), or Abort. None is
\* the one outcome of the empty slice, and one of the outcomes of a slice
\* that decodes to 0x110000.
next_code_point(bytes) ==
    IF Len(bytes) = 0 THEN {None}
    ELSE LET x == At(bytes, 0) IN
         IF x < 128 THEN from_u32_unchecked(x)
         ELSE LET init == utf8_first_byte(x, 2)
                  y == unwrap_or_0(bytes, 1)
                  ch2 == utf8_acc_cont_byte(init, y)
                  z == unwrap_or_0(bytes, 2)
                  y_z == utf8_acc_cont_byte(y % (CONT_MASK + 1), z)
                  ch3 == init * 4096 + y_z
                  w == unwrap_or_0(bytes, 3)
                  ch4 == (init % 8) * 262144 + utf8_acc_cont_byte(y_z, w)
              IN  from_u32_unchecked(IF x >= 224
                                     THEN (IF x >= 240 THEN ch4 ELSE ch3)
                                     ELSE ch2)

\* char::len_utf8
len_utf8(c) ==
    IF c < 128 THEN 1 ELSE IF c < 2048 THEN 2 ELSE IF c < 65536 THEN 3 ELSE 4

----------------------------------------------------------------------------
(* matcher.rs: character classes and the bonus model *)

\* The ranges of the alphabetic and numeric scalar values below U+0800 (the
\* values of one and two bytes), of U+AC00..U+D7FF (Hangul, the scalar values
\* read after the leading byte 0xED) and of plane 16 (private use, none; the
\* scalar values read after the leading byte 0xF4). The table is not given
\* for the other scalar values from U+0800 on, which the model does not draw.
AlphanumericRanges ==
    {<<48, 57>>, <<65, 90>>, <<97, 122>>, <<170, 170>>, <<178, 179>>,
     <<181, 181>>, <<185, 186>>, <<188, 190>>, <<192, 214>>, <<216, 246>>,
     <<248, 705>>, <<710, 721>>, <<736, 740>>, <<748, 748>>, <<750, 750>>,
     <<837, 837>>, <<867, 879>>, <<880, 884>>, <<886, 887>>, <<890, 893>>, <<895, 895>>,
     <<902, 902>>, <<904, 906>>, <<908, 908>>, <<910, 929>>, <<931, 1013>>,
     <<1015, 1153>>, <<1162, 1327>>, <<1329, 1366>>, <<1369, 1369>>, <<1376, 1416>>,
     <<1456, 1469>>, <<1471, 1471>>, <<1473, 1474>>, <<1476, 1477>>, <<1479, 1479>>,
     <<1488, 1514>>, <<1519, 1522>>, <<1552, 1562>>, <<1568, 1623>>, <<1625, 1641>>,
     <<1646, 1747>>, <<1749, 1756>>, <<1761, 1768>>, <<1773, 1788>>, <<1791, 1791>>,
     <<1808, 1855>>, <<1869, 1969>>, <<1984, 2026>>, <<2036, 2037>>, <<2042, 2042>>,
     <<44032, 55203>>, <<55216, 55238>>, <<55243, 55291>>}

\* char::is_alphanumeric, the set of its outcomes, on the values
\* AlphanumericRanges is given for. On a value that is no scalar value (a
\* char made by the undefined call of from_u32_unchecked) the lookup reads
\* outside its tables and a build may answer either way.
is_alphanumeric(c) ==
    IF is_scalar_value(c)
    THEN {\E r \in AlphanumericRanges : r[1] <= c /\ c <= r[2]}
    ELSE BOOLEAN

\* char::is_whitespace: the scalar values of the property White_Space
is_whitespace(c) ==
    \/ c \in 9..13
    \/ c \in {32, 133, 160, 5760, 8232, 8233, 8239, 8287, 12288}
    \/ c \in 8192..8202

\* state_from_char, the set of its outcomes: one class for a scalar value
state_from_char(c) ==
    {IF alphanumeric THEN "InWord"
     ELSE IF is_whitespace(c) THEN "InSpace"
     ELSE "InSpecial" : alphanumeric \in is_alphanumeric(c)}

SCORE_BEGINNING == 20
SCORE_BOUNDARY == 10
SCORE_MATCH == 3
SCORE_CONSECUTIVE == 3

\* bonus_at; c is the character matched, equal to a character of the term
\* and so a scalar value
bonus_at(state, c, distance) ==
    LET alphanumeric == CHOOSE b \in is_alphanumeric(c) : TRUE
        score ==
          CASE state = "Beginning" -> SCORE_BEGINNING
            [] state = "InSpace" -> SCORE_BOUNDARY
            [] state = "InSpecial" ->
                 (IF alphanumeric THEN SCORE_BOUNDARY ELSE SCORE_MATCH)
            [] state = "InWord" ->
                 (IF ~alphanumeric THEN SCORE_BOUNDARY ELSE SCORE_MATCH)
    IN  IF distance = 1 THEN score + SCORE_CONSECUTIVE ELSE score


MatchResult(score, matches) == [score |-> score, matches |-> matches]

----------------------------------------------------------------------------
(* matcher.rs: FuzzyMatcher *)

\* FuzzyMatcher::new: term.chars().collect()
FuzzyMatcher_new(t) == t

\* the locals of FuzzyMatcher::match_term as the loop is entered
FuzzyLocals(t, o) ==
    [state |-> "Beginning",
     total_score |-> 0,
     matches |-> IF o.match_position THEN [k \in 1..Len(t) |-> 0] ELSE <<>>,
     term_index |-> 0,
     current |-> At(t, 0),
     last_match |-> 0,
     char_index |-> 0,
     byte_index |-> 0]

\* choose!(term_index != 0, char_index - last_match, 0)
fuzzy_distance(f) ==
    IF f.term_index # 0 THEN f.char_index - f.last_match ELSE 0

\* term_chars.next(): the iterator has yielded term[0 ..= term_index]
term_chars_next(t, f) ==
    IF f.term_index + 1 < Len(t) THEN Some(At(t, f.term_index + 1)) ELSE None

\* One iteration of the while loop of FuzzyMatcher::match_term, with cp what
\* next_code_point(&input[byte_index..]) returned and st what
\* state_from_char(c) returned:
\* [ret |-> Some(value returned) or None when the loop goes on, f |-> locals]
FuzzyLoopBody(t, inp, o, f, cp, st) ==
    IF cp.some
    THEN LET c == cp.val
             scanned == [f EXCEPT !.state = st,
                                  !.char_index = f.char_index + 1,
                                  !.byte_index = f.byte_index + len_utf8(c)]
         IN
         IF c = f.current
         THEN LET distance == fuzzy_distance(f)
                  total == f.total_score + bonus_at(f.state, c, distance)
                  ms == IF o.match_position
                        THEN SetAt(f.matches, f.term_index, f.byte_index)
                        ELSE f.matches
                  nxt == term_chars_next(t, f)
              IN  IF nxt.some
                  THEN [ret |-> None,
                        f |-> [scanned EXCEPT !.total_score = total,
                                              !.last_match = f.char_index,
                                              !.matches = ms,
                                              !.current = nxt.val,
                                              !.term_index = f.term_index + 1]]
                  ELSE [ret |-> Some(Some(MatchResult(total,
                                   IF o.match_position THEN Some(ms) ELSE None))),
                        f |-> [f EXCEPT !.total_score = total,
                                        !.last_match = f.char_index,
                                        !.matches = ms]]
         ELSE [ret |-> None, f |-> scanned]
    ELSE [ret |-> None,
          f |-> [f EXCEPT !.char_index = f.char_index + 1,
                          !.byte_index = f.byte_index + 1]]

\* What state_from_char(c) may return for the character of cp; with no
\* character read the state stays as it is
states_of(cp, state) == IF cp.some THEN state_from_char(cp.val) ELSE {state}

\* The outcome of a call run to its end on a candidate whose scan is handed
\* a value that is no scalar value: the run operators are not defined there.
Undefined == [some |-> FALSE, undefined |-> TRUE]

RECURSIVE FuzzyLoop(_, _, _, _)
FuzzyLoop(t, inp, o, f) ==
    IF f.byte_index < Len(inp)
    THEN LET cps == next_code_point(SubSeqFrom(inp, f.byte_index)) IN
         IF Abort \in cps THEN Undefined
         ELSE LET cp == CHOOSE x \in cps : TRUE
                  st == CHOOSE x \in states_of(cp, f.state) : TRUE
                  r == FuzzyLoopBody(t, inp, o, f, cp, st)
              IN
              IF r.ret.some THEN r.ret.val ELSE FuzzyLoop(t, inp, o, r.f)
    ELSE None

\* FuzzyMatcher::match_term, run to its return (Undefined: see above)
FuzzyMatcher_match_term(t, inp, o) ==
    IF Len(t) = 0 \/ Len(inp) = 0 THEN None
    ELSE FuzzyLoop(t, inp, o, FuzzyLocals(t, o))

----------------------------------------------------------------------------
(* matcher.rs: ExactMatcher *)

\* The inner while loop of build_failure_function, entered after
\* cnd = table[cnd]: the value of cnd when it exits.
RECURSIVE FailureWalk(_, _, _)
FailureWalk(table, pos, cnd) ==
    IF cnd >= 0 /\ At(table, pos) # At(table, cnd)
    THEN FailureWalk(table, pos, At(table, cnd))
    ELSE cnd

\* The outer while loop of build_failure_function and the store after it.
\* table[pos] = cnd panics when pos is not an index of table.
RECURSIVE FailureLoop(_, _, _, _)
FailureLoop(t, table, pos, cnd) ==
    IF pos < Len(t)
    THEN IF At(t, pos) = At(t, cnd)
         THEN FailureLoop(t, SetAt(table, pos, At(table, cnd)), pos + 1, cnd + 1)
         ELSE LET table1 == SetAt(table, pos, cnd)
                  cnd1 == FailureWalk(table1, pos, At(table1, cnd))
              IN  FailureLoop(t, table1, pos + 1, cnd1 + 1)
    ELSE IF pos < Len(table)
         THEN [panic |-> FALSE, table |-> SetAt(table, pos, cnd)]
         ELSE [panic |-> TRUE, table |-> table]

build_failure_function(t) ==
    FailureLoop(t, SetAt([k \in 1..(Len(t) + 1) |-> -1], 0, -1), 1, 0)

\* the locals of ExactMatcher::match_term as the loop is entered
ExactLocals ==
    [state |-> "Beginning", i |-> 0, j |-> 0, match_start |-> 0,
     match_score |-> 0, best_start |-> 0, best_score |-> 0]

\* One iteration of the while loop of ExactMatcher::match_term, with cp what
\* next_code_point(&input[i..]) returned and st what state_from_char(c)
\* returned
ExactLoopBody(t, ff, inp, e, cp, st) ==
    IF cp.some
    THEN LET c == cp.val IN
         IF c = At(t, e.j)
         THEN LET e1 == IF e.j = 0
                        THEN [e EXCEPT !.match_start = e.i,
                                       !.match_score = bonus_at(e.state, c, 0)]
                        ELSE e
                  e2 == [e1 EXCEPT !.i = e.i + 1, !.j = e.j + 1]
                  e3 == IF e2.j = Len(t)
                        THEN LET e4 == IF e2.match_score > e2.best_score
                                       THEN [e2 EXCEPT !.best_start = e2.match_start,
                                                       !.best_score = e2.match_score]
                                       ELSE e2
                             IN  [e4 EXCEPT !.j = At(ff, Len(t))]
                        ELSE e2
              IN  [e3 EXCEPT !.state = st]
         ELSE LET e1 == IF At(ff, e.j) < 0
                        THEN [e EXCEPT !.i = e.i + 1, !.j = 0]
                        ELSE [e EXCEPT !.j = At(ff, e.j)]
                  e2 == IF e1.j = 0 THEN [e1 EXCEPT !.match_score = 0] ELSE e1
              IN  [e2 EXCEPT !.state = st]
    ELSE [e EXCEPT !.i = e.i + 1, !.j = 0, !.match_score = 0]

\* The return of ExactMatcher::match_term, after the loop
ExactReturn(t, o, e) ==
    IF e.best_score > 0
    THEN Some(MatchResult(e.best_score,
              IF o.match_position
              THEN Some([k \in 1..Len(t) |-> e.best_start + k - 1])
              ELSE None))
    ELSE None

\* the loop run to its end: the locals after it, or Undefined
RECURSIVE ExactLoop(_, _, _, _)
ExactLoop(t, ff, inp, e) ==
    IF e.i < Len(inp)
    THEN LET cps == next_code_point(SubSeqFrom(inp, e.i)) IN
         IF Abort \in cps THEN Undefined
         ELSE LET cp == CHOOSE x \in cps : TRUE
                  st == CHOOSE x \in states_of(cp, e.state) : TRUE
              IN  ExactLoop(t, ff, inp, ExactLoopBody(t, ff, inp, e, cp, st))
    ELSE e

\* ExactMatcher::match_term, run to its return (Undefined: see above)
ExactMatcher_match_term(t, ff, inp, o) ==
    LET e == ExactLoop(t, ff, inp, ExactLocals) IN
    IF e = Undefined THEN Undefined ELSE ExactReturn(t, o, e)

----------------------------------------------------------------------------
(* The inputs the specifications draw from *)

\* 'A', ' ', '-', and the two bytes of U+00E9 (0xC3 0xA9)
Bytes == {65, 32, 45, 195, 169}

\* 'A', the leading byte 0xED of a three-byte form, and 0xA9: after 0xED the
\* scanner reads a Hangul syllable (second byte absent or 'A') or a
\* surrogate, which is no scalar value (second byte 0xA9 or 0xED)
MalformedBytes == {65, 237, 169}

\* The leading byte 0xF4 of a four-byte form, 0x90, 0x80 and ' ': the bytes
\* 0xF4 0x90, with nothing or 0x80 in the two places after them, are read as
\* 0x110000, and 0x80 ' ' read from 0x80 on is ' '
NicheBytes == {244, 144, 128, 32}

\* 'A', ' ', '-', U+00E9, and U+0241, which the scanner reads from 0xA9 'A'
TermChars == {65, 32, 45, 233, 577}

AsciiChars == {65, 66}

MatchOptions == [case_sensitive : {FALSE}, match_position : BOOLEAN]

Idle == [idle |-> TRUE]

PatternIdle == query = <<>> /\ terms = <<>> /\ results = <<>>

PipelineIdle ==
    /\ chunk_pos = <<>> /\ channel = <<>> /\ sender_live = FALSE
    /\ written = <<>> /\ consumer_pc = "idle" /\ pattern = <<>>
    /\ line = None /\ job_panicked = <<>> /\ non_utf8 = 0

----------------------------------------------------------------------------
(* FuzzyMatcher::new(term).match_term(input, opts), one loop iteration a step *)

InitFuzzy ==
    /\ pc = "fuzzy_call"
    /\ term \in SeqsUpTo(TermChars, MaxTermLen)
    /\ input \in SeqsUpTo(Bytes, MaxInputLen)
                 \cup SeqsUpTo(MalformedBytes, MaxMalformedInputLen)
                 \cup SeqsUpTo(NicheBytes, MaxNicheInputLen)
    /\ opts \in MatchOptions
    /\ fm = Idle /\ failure_function = <<>> /\ em = Idle
    /\ result = None
    /\ PatternIdle /\ PipelineIdle

\* entry of match_term: the early return, or the locals before the loop
FuzzyEnter ==
    /\ pc = "fuzzy_call"
    /\ IF Len(term) = 0 \/ Len(input) = 0
       THEN pc' = "done" /\ fm' = fm
       ELSE pc' = "fuzzy_loop" /\ fm' = FuzzyLocals(term, opts)
    /\ result' = None
    /\ UNCHANGED <<term, input, opts, failure_function, em>>
    /\ UNCHANGED <<patternVars, pipelineVars>>

\* one iteration of the while loop, or the abort of the process in the scan
FuzzyIterate ==
    /\ pc = "fuzzy_loop"
    /\ fm.byte_index < Len(input)
    /\ \E cp \in next_code_point(SubSeqFrom(input, fm.byte_index)) :
         IF cp = Abort
         THEN pc' = "aborted" /\ fm' = fm /\ result' = result
         ELSE \E st \in states_of(cp, fm.state) :
              LET r == FuzzyLoopBody(term, input, opts, fm, cp, st) IN
              /\ fm' = r.f
              /\ IF r.ret.some
                 THEN pc' = "done" /\ result' = r.ret.val
                 ELSE pc' = pc /\ result' = result
    /\ UNCHANGED <<term, input, opts, failure_function, em>>
    /\ UNCHANGED <<patternVars, pipelineVars>>

\* the loop ends with the candidate exhausted: return None
FuzzyExhausted ==
    /\ pc = "fuzzy_loop"
    /\ ~(fm.byte_index < Len(input))
    /\ pc' = "done"
    /\ result' = None
    /\ UNCHANGED <<matcherVars, patternVars, pipelineVars>>

NextFuzzy == FuzzyEnter \/ FuzzyIterate \/ FuzzyExhausted

SpecFuzzy == InitFuzzy /\ [][NextFuzzy]_vars

----------------------------------------------------------------------------
(* ExactMatcher::new(term).match_term(input, opts), one loop iteration a step *)

ExactInputs ==
    (SeqsUpTo(TermChars, MaxTermLen) \X SeqsUpTo(Bytes, MaxInputLen))
    \cup (SeqsUpTo(TermChars, MaxTermLen)
             \X (SeqsUpTo(MalformedBytes, MaxMalformedInputLen)
                   \cup SeqsUpTo(NicheBytes, MaxNicheInputLen)))
    \cup (SeqsUpTo(AsciiChars, MaxAsciiTermLen) \X SeqsUpTo(AsciiChars, MaxAsciiInputLen))

InitExact ==
    /\ pc = "exact_new"
    /\ \E p \in ExactInputs : term = p[1] /\ input = p[2]
    /\ opts \in MatchOptions
    /\ fm = Idle /\ failure_function = <<>> /\ em = Idle
    /\ result = None
    /\ PatternIdle /\ PipelineIdle

\* ExactMatcher::new: build the failure function, which may panic
ExactNew ==
    /\ pc = "exact_new"
    /\ LET b == build_failure_function(term) IN
         IF b.panic
         THEN pc' = "panicked" /\ failure_function' = failure_function
         ELSE pc' = "exact_call" /\ failure_function' = b.table
    /\ UNCHANGED <<term, input, opts, fm, em, result>>
    /\ UNCHANGED <<patternVars, pipelineVars>>

\* entry of match_term: the locals before the loop
ExactEnter ==
    /\ pc = "exact_call"
    /\ pc' = "exact_loop"
    /\ em' = ExactLocals
    /\ UNCHANGED <<term, input, opts, fm, failure_function, result>>
    /\ UNCHANGED <<patternVars, pipelineVars>>

\* one iteration of the while loop, or the abort of the process in the scan
ExactIterate ==
    /\ pc = "exact_loop"
    /\ em.i < Len(input)
    /\ \E cp \in next_code_point(SubSeqFrom(input, em.i)) :
         IF cp = Abort
         THEN pc' = "aborted" /\ em' = em
         ELSE \E st \in states_of(cp, em.state) :
              /\ pc' = pc
              /\ em' = ExactLoopBody(term, failure_function, input, em, cp, st)
    /\ UNCHANGED <<term, input, opts, fm, failure_function, result>>
    /\ UNCHANGED <<patternVars, pipelineVars>>

\* the loop has ended: return the best occurrence, if any
ExactFinish ==
    /\ pc = "exact_loop"
    /\ ~(em.i < Len(input))
    /\ pc' = "done"
    /\ result' = ExactReturn(term, opts, em)
    /\ UNCHANGED <<matcherVars, patternVars, pipelineVars>>

NextExact == ExactNew \/ ExactEnter \/ ExactIterate \/ ExactFinish

SpecExact == InitExact /\ [][NextExact]_vars

----------------------------------------------------------------------------
(* pattern.rs *)

\* ExactMatcher::new: the term's characters and their failure function
ExactMatcher_new(t) ==
    LET b == build_failure_function(t) IN
    [panic |-> b.panic, kind |-> "Exact", term |-> t, failure_function |-> b.table]

\* str::split_whitespace: the maximal runs of non-whitespace characters.
\* cur is the run being read, acc the runs already closed.
RECURSIVE SplitFrom(_, _, _, _)
SplitFrom(q, k, cur, acc) ==
    IF k > Len(q)
    THEN (IF cur = <<>> THEN acc ELSE Append(acc, cur))
    ELSE IF is_whitespace(q[k])
         THEN SplitFrom(q, k + 1, <<>>, IF cur = <<>> THEN acc ELSE Append(acc, cur))
         ELSE SplitFrom(q, k + 1, Append(cur, q[k]), acc)

split_whitespace(q) == SplitFrom(q, 1, <<>>, <<>>)

\* parse_term, keeping the marker in the exact term
parse_term_keep_marker(w) ==
    IF At(w, 0) = 39
    THEN ExactMatcher_new(w)
    ELSE [panic |-> FALSE, kind |-> "Fuzzy", term |-> FuzzyMatcher_new(w)]

\* parse_term: a leading apostrophe (byte 39) makes an exact term of the rest
parse_term(w) ==
    IF At(w, 0) = 39
    THEN ExactMatcher_new(SubSeqFrom(w, 1))
    ELSE [panic |-> FALSE, kind |-> "Fuzzy", term |-> FuzzyMatcher_new(w)]

\* parse_terms: input.split_whitespace().map(parse_term).collect()
parse_terms(q) ==
    LET ws == split_whitespace(q) IN [k \in 1..Len(ws) |-> parse_term(ws[k])]

\* <TermMatcher as Matcher>::match_term
TermMatcher_match_term(m, inp, o) ==
    IF m.kind = "Fuzzy"
    THEN FuzzyMatcher_match_term(m.term, inp, o)
    ELSE ExactMatcher_match_term(m.term, m.failure_function, inp, o)

----------------------------------------------------------------------------
(* Pattern::new(query, opts).matches(input), one term a step *)

\* 'A', 'B', ' ' and the apostrophe
QueryChars == {65, 66, 32, 39}

InitPattern ==
    /\ pc = "pattern_new"
    /\ query \in SeqsUpTo(QueryChars, MaxQueryLen)
    /\ input \in SeqsUpTo(AsciiChars, MaxPatternInputLen)
    /\ opts \in MatchOptions
    /\ terms = <<>> /\ results = <<>>
    /\ term = <<>> /\ fm = Idle /\ failure_function = <<>> /\ em = Idle
    /\ result = None
    /\ PipelineIdle

\* Pattern::new: parse the terms; building an exact term may panic
PatternNew ==
    /\ pc = "pattern_new"
    /\ LET ts == parse_terms(query) IN
         IF \E k \in 1..Len(ts) : ts[k].panic
         THEN pc' = "panicked" /\ terms' = terms
         ELSE pc' = "pattern_matches" /\ terms' = ts
    /\ UNCHANGED <<matcherVars, result, query, results, pipelineVars>>

\* Pattern::matches: the next term's matcher is run on the candidate; collect
\* stops at the first None. (The candidates drawn are of single bytes, on
\* which the matchers are defined.)
PatternMatchTerm ==
    /\ pc = "pattern_matches"
    /\ Len(results) < Len(terms)
    /\ LET r == TermMatcher_match_term(terms[Len(results) + 1], input, opts) IN
         /\ r # Undefined
         /\ IF r.some
            THEN pc' = pc /\ results' = Append(results, r.val) /\ result' = result
            ELSE pc' = "done" /\ results' = results /\ result' = None
    /\ UNCHANGED <<matcherVars, query, terms, pipelineVars>>

\* Pattern::matches: every term matched, the collected results are returned
PatternCollect ==
    /\ pc = "pattern_matches"
    /\ Len(results) = Len(terms)
    /\ pc' = "done"
    /\ result' = Some(results)
    /\ UNCHANGED <<matcherVars, patternVars, pipelineVars>>

NextPattern == PatternNew \/ PatternMatchTerm \/ PatternCollect

SpecPattern == InitPattern /\ [][NextPattern]_vars

\* Pattern::matches, run to its return (Undefined where a term's matcher is)
RECURSIVE CollectFrom(_, _, _, _)
CollectFrom(ts, inp, o, acc) ==
    IF Len(acc) = Len(ts) THEN Some(acc)
    ELSE LET r == TermMatcher_match_term(ts[Len(acc) + 1], inp, o) IN
         IF r = Undefined THEN Undefined
         ELSE IF r.some THEN CollectFrom(ts, inp, o, Append(acc, r.val))
         ELSE None

Pattern_matches(ts, inp, o) == CollectFrom(ts, inp, o, <<>>)

----------------------------------------------------------------------------
(* main.rs: read_from_current_dir, from the spawn of the consumer thread on *)

\* par_chunks(32)
ChunkSize == 32

\* The relative paths of the files found, in enumeration order: two letters
\* of 'A'..'F' each, all different.
Entries == [n \in 1..NumEntries |-> <<65 + ((n - 1) \div 6), 65 + ((n - 1) % 6)>>]

\* The query strings of the pipeline: "F", "D F" and "'FC"
PipelineQueries == {<<70>>, <<68, 32, 70>>, <<39, 70, 67>>}

NumChunks == (NumEntries + ChunkSize - 1) \div ChunkSize

\* the entries of chunk c (1-based), in order
Chunk(c) == SubSeq(Entries, (c - 1) * ChunkSize + 1,
                   IF c * ChunkSize < NumEntries THEN c * ChunkSize ELSE NumEntries)

\* MatchOptions::default()
MatchOptions_default == [case_sensitive |-> FALSE, match_position |-> FALSE]

\* pattern.matches(rel_path.as_bytes()).is_some(), tabulated: for each query
\* string and each entry, whether the pattern built from the query matches
PatternMatchesEntry ==
    [q \in PipelineQueries |->
        [n \in 1..NumEntries |->
            Pattern_matches(parse_terms(q), Entries[n], MatchOptions_default).some]]

\* the entries one of which may have a path that is not UTF-8 (0: none has)
NonUtf8Entries == {0, 2, 34}

InitPipeline ==
    /\ pc = "for_each"
    /\ pattern \in PipelineQueries
    /\ terms = parse_terms(pattern)
    /\ opts = MatchOptions_default
    /\ chunk_pos = [c \in 1..NumChunks |-> 0]
    /\ job_panicked = [c \in 1..NumChunks |-> FALSE]
    /\ non_utf8 \in NonUtf8Entries
    /\ channel = <<>>
    /\ sender_live = TRUE
    /\ written = <<>>
    /\ consumer_pc = "recv"
    /\ line = None
    /\ query = <<>> /\ results = <<>>
    /\ term = <<>> /\ input = <<>> /\ fm = Idle /\ failure_function = <<>> /\ em = Idle
    /\ result = None

\* the process is running: the main thread has neither returned nor panicked
process_alive == pc \in {"for_each", "join"}

\* the Receiver is gone: the consumer thread has ended and dropped it
receiver_dropped == consumer_pc \in {"exited", "panicked"}

\* The closure of for_each_with on the next entry of chunk c. The path is
\* turned into a str, and unwrap panics when it is not UTF-8; it is sent
\* when the pattern matches it, and with the Receiver dropped send returns
\* Err and unwrap panics. A panic ends the closure's call on this chunk; the
\* pool goes on with the other chunks.
WorkerStep(c) ==
    /\ pc = "for_each"
    /\ ~job_panicked[c]
    /\ chunk_pos[c] < Len(Chunk(c))
    /\ LET n == (c - 1) * ChunkSize + chunk_pos[c] + 1
           rel_path == Entries[n]
           panic == /\ job_panicked' = [job_panicked EXCEPT ![c] = TRUE]
                    /\ chunk_pos' = chunk_pos
                    /\ channel' = channel
           goes_on == /\ job_panicked' = job_panicked
                      /\ chunk_pos' = [chunk_pos EXCEPT ![c] = @ + 1]
       IN  IF n = non_utf8 THEN panic
           ELSE IF PatternMatchesEntry[pattern][n]
                THEN IF receiver_dropped THEN panic
                     ELSE goes_on /\ channel' = Append(channel, rel_path)
                ELSE goes_on /\ channel' = channel
    /\ UNCHANGED <<pc, matcherVars, result, patternVars, sender_live, written,
                   consumer_pc, pattern, line, non_utf8>>

\* the closure's call on chunk c has ended, by return or by panic
job_finished(c) == job_panicked[c] \/ chunk_pos[c] = Len(Chunk(c))

\* every chunk is finished: the pool has dropped the sender handed to
\* for_each_with and its clones, before for_each_with ends
SendersDropped ==
    /\ pc = "for_each"
    /\ sender_live
    /\ \A c \in 1..NumChunks : job_finished(c)
    /\ sender_live' = FALSE
    /\ UNCHANGED <<pc, matcherVars, result, patternVars, chunk_pos, channel,
                   written, consumer_pc, pattern, line, job_panicked, non_utf8>>

\* for_each_with ends in the main thread: it returns, or it resumes the
\* panic of a closure, and the main thread's panic ends the process
ForEachReturn ==
    /\ pc = "for_each"
    /\ ~sender_live
    /\ pc' = IF \E c \in 1..NumChunks : job_panicked[c] THEN "panicked" ELSE "join"
    /\ UNCHANGED <<matcherVars, result, patternVars, pipelineVars>>

\* the receiver's iterator ends: the channel is empty and every sender dropped
receiver_ends == channel = <<>> /\ ~sender_live

\* the consumer thread receives a line
ConsumerRecv ==
    /\ process_alive
    /\ consumer_pc = "recv"
    /\ channel # <<>>
    /\ line' = Some(Head(channel))
    /\ channel' = Tail(channel)
    /\ consumer_pc' = "write"
    /\ UNCHANGED <<pc, matcherVars, result, patternVars, chunk_pos, sender_live,
                   written, pattern, job_panicked, non_utf8>>

\* The consumer thread writes the line it received. When writeln! returns
\* Err, unwrap panics and the thread starts to unwind, the Receiver still
\* alive.
ConsumerWrite ==
    /\ process_alive
    /\ consumer_pc = "write"
    /\ \E ok \in BOOLEAN :
         IF ok
         THEN written' = Append(written, line.val) /\ line' = None
              /\ consumer_pc' = "recv"
         ELSE written' = written /\ line' = line /\ consumer_pc' = "unwinding"
    /\ UNCHANGED <<pc, matcherVars, result, patternVars, chunk_pos, channel,
                   sender_live, pattern, job_panicked, non_utf8>>

\* the panicking consumer thread unwinds: the line and the Receiver are
\* dropped and the thread ends
ConsumerUnwind ==
    /\ process_alive
    /\ consumer_pc = "unwinding"
    /\ consumer_pc' = "panicked"
    /\ line' = None
    /\ UNCHANGED <<pc, matcherVars, result, patternVars, chunk_pos, channel,
                   sender_live, written, pattern, job_panicked, non_utf8>>

\* the consumer thread leaves its loop and ends
ConsumerExit ==
    /\ process_alive
    /\ consumer_pc = "recv"
    /\ receiver_ends
    /\ consumer_pc' = "exited"
    /\ UNCHANGED <<pc, matcherVars, result, patternVars, chunk_pos, channel,
                   sender_live, written, pattern, line, job_panicked, non_utf8>>

\* thread.join().unwrap(): join returns once the consumer thread has ended,
\* with Err when it panicked, and then unwrap panics in the main thread
Join ==
    /\ pc = "join"
    /\ consumer_pc \in {"exited", "panicked"}
    /\ pc' = IF consumer_pc = "exited" THEN "done" ELSE "panicked"
    /\ UNCHANGED <<matcherVars, result, patternVars, pipelineVars>>

NextPipeline ==
    \/ \E c \in 1..NumChunks : WorkerStep(c)
    \/ SendersDropped
    \/ ForEachReturn
    \/ ConsumerRecv
    \/ ConsumerWrite
    \/ ConsumerUnwind
    \/ ConsumerExit
    \/ Join

SpecPipeline == InitPipeline /\ [][NextPipeline]_vars

\* Every thread that can take a step is eventually scheduled.
SpecPipelineFair ==
    /\ SpecPipeline
    /\ \A c \in 1..NumChunks : WF_vars(WorkerStep(c))
    /\ WF_vars(SendersDropped)
    /\ WF_vars(ForEachReturn)
    /\ WF_vars(ConsumerRecv)
    /\ WF_vars(ConsumerWrite)
    /\ WF_vars(ConsumerUnwind)
    /\ WF_vars(ConsumerExit)
    /\ WF_vars(Join)

----------------------------------------------------------------------------
(* The program as a whole: any one of the calls above *)

Init == InitFuzzy \/ InitExact \/ InitPattern \/ InitPipeline

Next == NextFuzzy \/ NextExact \/ NextPattern \/ NextPipeline

Spec == Init /\ [][Next]_vars

----------------------------------------------------------------------------
(* What the claims speak of: codepoints, subsequences, occurrences *)

\* The candidate's scanned codepoints, each with the byte offset it starts
\* at: the scanner is applied at offset off, then after the codepoint read.
\* (The value read is taken as it is, a scalar value or not.)
RECURSIVE ScanFrom(_, _)
ScanFrom(inp, off) ==
    IF off >= Len(inp) THEN <<>>
    ELSE LET c == (CHOOSE cp \in next_code_point(SubSeqFrom(inp, off)) :
                       cp.some).val
         IN  <<[c |-> c, off |-> off]>> \o ScanFrom(inp, off + len_utf8(c))

Scan(inp) == ScanFrom(inp, 0)

\* t is a subsequence of the codepoints cs
IsSubsequence(t, cs) ==
    \E g \in [1..Len(t) -> 1..Len(cs)] :
        /\ \A k \in 1..Len(t) : cs[g[k]].c = t[k]
        /\ \A k \in 1..(Len(t) - 1) : g[k] < g[k + 1]

\* t is a contiguous run of the codepoints cs
IsRun(t, cs) ==
    \E s \in 0..(Len(cs) - Len(t)) : \A k \in 1..Len(t) : cs[s + k].c = t[k]

SetMin(S) == CHOOSE x \in S : \A y \in S : x <= y
SetMax(S) == CHOOSE x \in S : \A y \in S : x >= y

\* The greedy leftmost alignment: the index in cs of the first codepoint
\* after the one matched by t[k - 1] that equals t[k] (0 for k = 0).
RECURSIVE GreedyIndex(_, _, _)
GreedyIndex(t, cs, k) ==
    IF k = 0 THEN 0
    ELSE SetMin({n \in (GreedyIndex(t, cs, k - 1) + 1)..Len(cs) : cs[n].c = t[k]})

\* the class of a codepoint: a value that is no scalar value is neither
\* alphanumeric nor whitespace
ClassOf(c) ==
    IF is_scalar_value(c) THEN CHOOSE st \in state_from_char(c) : TRUE
    ELSE "InSpecial"

\* the class of the codepoint before cs[n]
StateBefore(cs, n) ==
    IF n = 1 THEN "Beginning" ELSE ClassOf(cs[n - 1].c)

RECURSIVE SumTo(_, _)
SumTo(f, n) == IF n = 0 THEN 0 ELSE f[n] + SumTo(f, n - 1)

\* The score of the greedy alignment: the positional bonus of each matched
\* character, and CONSECUTIVE for each pair matched at adjacent indices.
GreedyScore(t, cs) ==
    LET g == [k \in 0..Len(t) |-> GreedyIndex(t, cs, k)]
        positional == [k \in 1..Len(t) |-> bonus_at(StateBefore(cs, g[k]), t[k], 0)]
        adjacent == {k \in 2..Len(t) : g[k] = g[k - 1] + 1}
    IN  SumTo(positional, Len(t)) + SCORE_CONSECUTIVE * Cardinality(adjacent)

GreedyOffsets(t, cs) == [k \in 1..Len(t) |-> cs[GreedyIndex(t, cs, k)].off]

\* every character of the query and of the candidate is a single byte
SingleByte(t, inp) ==
    (\A k \in 1..Len(t) : t[k] < 128) /\ (\A k \in 1..Len(inp) : inp[k] < 128)

\* the byte offsets at which the single-byte query occurs in the candidate
Occurrences(t, inp) ==
    {s \in 0..(Len(inp) - Len(t)) : \A k \in 0..(Len(t) - 1) : At(inp, s + k) = At(t, k)}

\* the bonus of the occurrence starting at offset s
OccurrenceScore(t, inp, s) ==
    bonus_at(IF s = 0 THEN "Beginning" ELSE ClassOf(At(inp, s - 1)),
             At(t, 0), 0)

\* UTF-8: the encoded length a leading byte declares (0: not a leading byte)
Utf8Width(b) ==
    IF b < 128 THEN 1
    ELSE IF b \in 194..223 THEN 2
    ELSE IF b \in 224..239 THEN 3
    ELSE IF b \in 240..244 THEN 4
    ELSE 0

\* the offsets at which the characters of a UTF-8 string start, from off on
RECURSIVE Utf8Starts(_, _)
Utf8Starts(inp, off) ==
    IF off >= Len(inp) \/ Utf8Width(At(inp, off)) = 0 THEN {}
    ELSE {off} \cup Utf8Starts(inp, off + Utf8Width(At(inp, off)))

\* inp is well-formed UTF-8, of the one- and two-byte forms (no sequence the
\* model draws after the leading byte 0xED is well-formed)
RECURSIVE ValidUtf8From(_, _)
ValidUtf8From(inp, off) ==
    IF off >= Len(inp) THEN TRUE
    ELSE LET w == Utf8Width(At(inp, off)) IN
         /\ w \in 1..2
         /\ off + w <= Len(inp)
         /\ \A k \in 1..(w - 1) : At(inp, off + k) \in 128..191
         /\ ValidUtf8From(inp, off + w)

ValidUtf8(inp) == ValidUtf8From(inp, 0)

----------------------------------------------------------------------------
(* Claims about FuzzyMatcher, under SpecFuzzy *)

\* the call has ended with a match returned
FuzzyMatched == pc = "done" /\ result.some

\* C5: for a non-empty query and a non-empty candidate, the call of
\* match_term ends with a match returned if and only if the query is a
\* subsequence of the candidate's scanned codepoints, and it ends without a
\* match only with the candidate exhausted before the last query character
\* was consumed.
C5_FuzzySuccessIffSubsequence ==
    (pc \in {"done", "aborted"} /\ Len(term) > 0 /\ Len(input) > 0) =>
        /\ FuzzyMatched <=> IsSubsequence(term, Scan(input))
        /\ ~FuzzyMatched => (fm.byte_index >= Len(input) /\ fm.term_index < Len(term))

\* C6: on success the offsets are those of the greedy leftmost alignment and
\* the score is the sum of the positional bonuses of the matched characters
\* plus CONSECUTIVE once for each two successive query characters matched at
\* adjacent codepoint indices; offsets are returned only when asked for.
C6_FuzzyGreedyAlignment ==
    (pc = "done" /\ result.some) =>
        LET cs == Scan(input) IN
        /\ result.val.score = GreedyScore(term, cs)
        /\ result.val.matches =
             IF opts.match_position THEN Some(GreedyOffsets(term, cs)) ELSE None

----------------------------------------------------------------------------
(* Claims about ExactMatcher, under SpecExact *)

\* C1: for a non-empty query and a candidate of single-byte characters, if
\* the query occurs as a contiguous run in the candidate then match_term
\* returns a match.
C1_ExactCompleteness ==
    (pc = "done" /\ Len(term) > 0 /\ SingleByte(term, input)
        /\ Occurrences(term, input) # {}) => result.some

\* C2: for a single-byte query and candidate with match_position set, the
\* offsets of a match are s, s+1, ..., s+len-1 where s is the start of an
\* occurrence of the query, the earliest among those of the highest score.
C2_ExactPosition ==
    (pc = "done" /\ SingleByte(term, input) /\ opts.match_position /\ result.some) =>
        LET m == result.val.matches.val
            s == m[1]
            occ == Occurrences(term, input)
        IN  /\ m = [k \in 1..Len(term) |-> s + k - 1]
            /\ s \in occ
            /\ \A s2 \in occ :
                 \/ OccurrenceScore(term, input, s2) < OccurrenceScore(term, input, s)
                 \/ (OccurrenceScore(term, input, s2) = OccurrenceScore(term, input, s)
                       /\ s <= s2)

\* C3: the score of a match is the greatest, over the occurrences of the
\* query in the candidate, of the bonus of the occurrence's first character.
C3_ExactScore ==
    (pc = "done" /\ SingleByte(term, input) /\ result.some) =>
        /\ Occurrences(term, input) # {}
        /\ result.val.score =
             SetMax({OccurrenceScore(term, input, s) : s \in Occurrences(term, input)})

\* C4: an empty query or an empty candidate is a no-match outcome, never a
\* failure.
C4_EmptyIsNoMatch ==
    /\ pc # "panicked"
    /\ (pc = "done" /\ (Len(term) = 0 \/ Len(input) = 0)) => ~result.some

\* C8: for a non-empty query, match_term returns a match only if the query
\* occurs as a contiguous run of the candidate's characters (stated for the
\* candidates that are well-formed UTF-8).
C8_ExactSoundness ==
    (pc = "done" /\ Len(term) > 0 /\ ValidUtf8(input) /\ result.some) =>
        IsRun(term, Scan(input))

\* C10: for a candidate that is valid UTF-8, every call of next_code_point,
\* in either matcher, starts at the first byte of a codepoint.
C10_ScanAligned ==
    ValidUtf8(input) =>
        /\ (pc = "fuzzy_loop" /\ fm.byte_index < Len(input)) =>
               fm.byte_index \in Utf8Starts(input, 0)
        /\ (pc = "exact_loop" /\ em.i < Len(input)) =>
               em.i \in Utf8Starts(input, 0)

----------------------------------------------------------------------------
(* Claims about Pattern, under SpecPattern *)

\* the k-th least element of a set of numbers
KthOf(S, k) == CHOOSE x \in S : Cardinality({y \in S : y < x}) = k - 1

\* the whitespace-delimited words of the query: the k-th word runs from the
\* k-th position that starts a run of non-whitespace to the k-th that ends one
WordStarts(q) ==
    {n \in 1..Len(q) : ~is_whitespace(q[n]) /\ (n = 1 \/ is_whitespace(q[n - 1]))}

WordEnds(q) ==
    {n \in 1..Len(q) : ~is_whitespace(q[n]) /\ (n = Len(q) \/ is_whitespace(q[n + 1]))}

Words(q) ==
    [k \in 1..Cardinality(WordStarts(q)) |->
        SubSeq(q, KthOf(WordStarts(q), k), KthOf(WordEnds(q), k))]

\* what the matcher of word w returns alone on the candidate
AloneResult(w, inp, o) ==
    IF w[1] = 39
    THEN ExactMatcher_match_term(Tail(w), build_failure_function(Tail(w)).table, inp, o)
    ELSE FuzzyMatcher_match_term(w, inp, o)

\* C7: the terms are the whitespace-delimited words of the query, a word with
\* a leading apostrophe an Exact term of the rest and any other a Fuzzy term;
\* matches succeeds if and only if every term's matcher succeeds alone on the
\* candidate, and then returns each term's own result in term order; the one
\* failure of construction is a word that is the apostrophe alone.
C7_PatternAnd ==
    LET ws == Words(query) IN
    /\ pc \in {"pattern_matches", "done"} =>
         /\ Len(terms) = Len(ws)
         /\ \A k \in 1..Len(ws) :
              /\ terms[k].kind = (IF ws[k][1] = 39 THEN "Exact" ELSE "Fuzzy")
              /\ terms[k].term = (IF ws[k][1] = 39 THEN Tail(ws[k]) ELSE ws[k])
    /\ pc = "done" =>
         /\ result.some <=> \A k \in 1..Len(ws) : AloneResult(ws[k], input, opts).some
         /\ result.some =>
              result.val = [k \in 1..Len(ws) |-> AloneResult(ws[k], input, opts).val]
    /\ pc = "panicked" => \E k \in 1..Len(ws) : ws[k] = <<39>>

\* an exact term and a fuzzy term that both match the candidate
C7_Witness ==
    /\ pc = "done" /\ result.some /\ Len(terms) = 2
    /\ terms[1].kind = "Exact" /\ terms[2].kind = "Fuzzy"

----------------------------------------------------------------------------
(* Claims about the scan pipeline, under SpecPipelineFair *)

\* how many times the line l occurs in the sequence ls
Count(ls, l) == Cardinality({n \in 1..Len(ls) : ls[n] = l})

\* the lines written are the matching candidates, each written once
WrittenExactlyMatches ==
    /\ \A n \in 1..NumEntries :
         Count(written, Entries[n]) =
           IF Pattern_matches(parse_terms(pattern), Entries[n], MatchOptions_default).some
           THEN 1 ELSE 0
    /\ \A n \in 1..Len(written) : \E m \in 1..NumEntries : written[n] = Entries[m]

\* C9: under every interleaving of the chunk workers and the consumer thread
\* the run terminates, and when it has terminated, in whatever way, the
\* lines written are exactly the candidates the pattern matches, each
\* written once.
C9_PipelineCompletes ==
    /\ <>(pc \in {"done", "panicked"})
    /\ [](pc \in {"done", "panicked"} => WrittenExactlyMatches)

\* Without a path that is not UTF-8: the run ends, with a panic only after a
\* write to standard output failed, and the lines of a run that ends
\* normally are exactly the candidates the pattern matches.
PipelineCompletesUnlessWriteFails ==
    non_utf8 = 0 =>
        /\ <>(pc = "done" \/ (pc = "panicked" /\ consumer_pc = "panicked"))
        /\ [](pc = "done" => (WrittenExactlyMatches /\ channel = <<>> /\ line = None))
        /\ [](pc = "panicked" => consumer_pc = "panicked")

=============================================================================
